---- MODULE Spec2Model ----
(***************************************************************************)
(* pyx-irc: an IRC front end for a Pretend You're Xyzzy game server.       *)
(*                                                                         *)
(* One connection is modelled with every goroutine that serves it:         *)
(*   reader    Manager.receive        (reads lines, runs command handlers) *)
(*   writer    Manager.send           (drains client.data to the socket)   *)
(*   closer    Manager.close          (waits on client.close)              *)
(*   registry  Manager.listenForConnections (unregister requests)          *)
(*   poll      pyx.Client.receive     (long poll loop)                     *)
(*   disp      Client.dispatchPyxEvents (event handlers)                   *)
(* A goroutine that runs a handler holds the rest of that handler as a     *)
(* list of operations q[t]; one step executes the handler up to its next   *)
(* blocking operation (a channel send, a wait) or hand-over point.         *)
(***************************************************************************)
EXTENDS Integers, Sequences, FiniteSets, TLC

\* ------------------------------------------------------------------ bounds
MaxCmds == 4
MaxFaults == 1
NumGames == 2
MaxCard == 3
MaxInputs == 5
SessionEventCost == 3
PollErrorCost == 2
WireWindow == 2
MaxRefused == 1
MaxChars == 5
MaxPieces == 3
MaxLine == 6
MaxText == 2

\* ------------------------------------------------------------------ values
VARIABLES
    registered, nick, password, hasUser, pyx,
    gameId, gameIsSpectate, gameInProgress, gameHost, gamePlayedCards,
    pc, q, whold, wire, sockClosed,
    dataClosed, closeClosed, regBusy, inRegistry,
    stopped, stopClosed, wg, evClosed, serial, logouts,
    lastMsg, answer, request, nCmds, nRefused, nEvents, nFaults, panic, loginFailed,
    call

sessVars == <<registered, nick, password, hasUser, pyx>>
gameVars == <<gameId, gameIsSpectate, gameInProgress, gameHost, gamePlayedCards>>
ioVars == <<whold, wire, sockClosed>>
chanVars == <<dataClosed, closeClosed, regBusy, inRegistry>>
pyxVars == <<stopped, stopClosed, wg, evClosed, serial, logouts>>
cntVars == <<lastMsg, answer, request, nCmds, nRefused, nEvents, nFaults, loginFailed>>
vars == <<sessVars, gameVars, pc, q, ioVars, chanVars, pyxVars, cntVars, panic, call>>

\* A name on the wire: a prefix and the text after it ("#watch-" + "1").
Name(p, s) == [p |-> p, s |-> s]
NoName == Name("", "")
GlobalChannel == Name("#global", "")
GameChannelPrefix == "#game-"
SpectateGameChannelPrefix == "#watch-"

\* strconv.Itoa and strconv.Atoi on the game ids of the model; Atoi fails on any
\* other text.
Digits == <<"1", "2", "3", "4">>
Itoa(i) == Digits[i]
AtoiOk(s) == \E i \in DOMAIN Digits : Digits[i] = s
Atoi(s) == CHOOSE i \in DOMAIN Digits : Digits[i] = s

GameIds == 1..NumGames
NoGame == 0

Nicks == {Name("alice", ""), Name("bob", "")}
BadNick == Name("9lives", "")
validNick(n) == n \in Nicks

Line(t, ch) == [t |-> t, ch |-> ch, x |-> <<>>]
LineX(t, ch, x) == [t |-> t, ch |-> ch, x |-> x]
NoLine == Line("", NoName)

\* A backend event (pyx.LongPollResponse): its kind, GameId (NoGame for nil),
\* whether it names this session's own user, Nickname, Wall, GameState,
\* WhiteCards and WinningCard.
NoEvent == [ev |-> "", game |-> NoGame, self |-> FALSE, who |-> NoName, wall |-> FALSE,
            state |-> "", cards |-> <<>>, win |-> 0]

Op(o) == [op |-> o, l |-> NoLine, a |-> NoName, e |-> NoEvent]
OpSend(l) == [op |-> "send", l |-> l, a |-> NoName, e |-> NoEvent]
OpA(o, a) == [op |-> o, l |-> NoLine, a |-> a, e |-> NoEvent]
OpL(o, l) == [op |-> o, l |-> l, a |-> NoName, e |-> NoEvent]
OpE(o, e) == [op |-> o, l |-> NoLine, a |-> NoName, e |-> e]

\* What the environment has put in so far: lines of the client, failed requests
\* of the backend, and what the long poll returned (nEvents, see Cost).
Inputs == nCmds + nEvents + nFaults
MayFail == nFaults < MaxFaults /\ Inputs < MaxInputs

Tasks == {"reader", "writer", "closer", "poll", "disp"}

\* Where a goroutine's loop waits once its handler has run to the end.
Loop(t) == CASE t = "reader" -> "scan"
             [] t = "disp" -> "recv"
             [] t = "poll" -> "select"
             [] OTHER -> "recv"

\* The last panic: the goroutine that panicked and why ("nil": a nil pointer
\* dereference, "closed": a send on a closed channel, "reclose": the close of a
\* closed channel).
NoPanic == [by |-> "", why |-> ""]

\* A goroutine panicked: dispatchPyxEvents recovers and returns, any other
\* goroutine takes the process down.
Recovers(t) == t = "disp"
crashed == panic # NoPanic /\ ~Recovers(panic.by)
PcAfterPanic(t) == IF Recovers(t) THEN [pc EXCEPT ![t] = "dead"] ELSE pc
QAfterPanic(t) == IF Recovers(t) THEN [q EXCEPT ![t] = <<>>] ELSE q
Panic(t, why) == /\ pc' = PcAfterPanic(t)
                 /\ q' = QAfterPanic(t)
                 /\ panic' = [by |-> t, why |-> why]

\* What is left of a handler: nothing (the goroutine is back in its loop), the
\* return of the goroutine, or operations still to run.
Returns(ops) == ops = <<Op("ret")>>
QLeft(ops) == IF Returns(ops) THEN <<>> ELSE ops
PcLeft(t, ops) == IF ops = <<>> THEN Loop(t) ELSE IF Returns(ops) THEN "done" ELSE "run"

\* Task t replaces the operation at the head of its list by ops.
QNext(t, ops) == [q EXCEPT ![t] = QLeft(ops \o Tail(q[t]))]
PcNext(t, ops) == [pc EXCEPT ![t] = PcLeft(t, ops \o Tail(q[t]))]
Continue(t, ops) == q' = QNext(t, ops) /\ pc' = PcNext(t, ops) /\ panic' = panic

\* Task t starts a handler whose operations are ops.
Start(t, ops) == /\ q' = [q EXCEPT ![t] = QLeft(ops)]
                 /\ pc' = [pc EXCEPT ![t] = PcLeft(t, ops)]
                 /\ panic' = panic

Running(t) == ~crashed /\ pc[t] = "run" /\ q[t] # <<>>
HeadOp(t) == Head(q[t])

\* ------------------------------------------------------------- inbound lines
Msg(cmd, args) == [cmd |-> cmd, args |-> args]
NoMsg == Msg("", <<>>)

UnregisteredHandlers == {"CAP", "NICK", "PASS", "USER"}

Password == Name("idcode", "")

\* The lines a client sends before it is registered: those that set a field,
\* and, at most MaxRefused a run, those that are refused whatever the session
\* holds and the NICK line by which a client that has given a nickname gives
\* another valid one.
UnregisteredInputs ==
    {Msg("NICK", <<Name("alice", "")>>), Msg("PASS", <<Password>>), Msg("USER", <<NoName>>)}
UnregisteredRefused ==
    {Msg("NICK", <<BadNick>>), Msg("NICK", <<>>), Msg("PASS", <<>>), Msg("CAP", <<>>),
     Msg("QUIT", <<>>), Msg("PING", <<>>)}
    \cup (IF nick # NoName THEN {Msg("NICK", <<Name("bob", "")>>)} ELSE {})

\* The lines that may be read now, drawn from taken and refused.
Readable(taken, refused) == taken \cup (IF nRefused < MaxRefused THEN refused ELSE {})

\* Client.disconnect: the closing line is written and flushed directly, the close
\* is requested, and the backend is logged out when there is a backend client.
disconnect == <<OpL("direct", Line("ERROR", NoName)), Op("closereq"), Op("logout")>>

handleCap(msg) == <<OpSend(Line("421", NoName))>>

handleUnregisteredNick(msg) ==
    IF Len(msg.args) < 1
    THEN [nick |-> nick, ops |-> <<OpSend(Line("431", NoName))>>]
    ELSE IF validNick(msg.args[1])
         THEN [nick |-> msg.args[1], ops |-> <<>>]
         ELSE [nick |-> nick, ops |-> <<OpSend(Line("432", NoName))>>]

handleUnregisteredPass(msg) ==
    IF Len(msg.args) < 1
    THEN [password |-> password, ops |-> <<OpSend(Line("461", NoName))>>]
    ELSE [password |-> msg.args[1], ops |-> <<>>]

handleUnregisteredUser(msg) == TRUE

\* Variant: a command outside the table ends the connection.
notRegisteredFatal(msg) == <<OpSend(Line("451", NoName))>> \o disconnect

\* handleIncomingUnregistered, lines 130-131: the reply to a command that is not
\* in the table.
notRegistered(msg) == <<OpSend(Line("451", NoName))>>

\* The lines 128-133 of handleIncomingUnregistered: the table lookup and the
\* handler; the registration check runs when the handler's sends are through.
handleIncomingUnregistered(msg) ==
    IF msg.cmd \notin UnregisteredHandlers
    THEN /\ Start("reader", notRegistered(msg))
         /\ UNCHANGED <<nick, password, hasUser>>
    ELSE CASE msg.cmd = "CAP" ->
                /\ Start("reader", handleCap(msg) \o <<Op("regcheck")>>)
                /\ UNCHANGED <<nick, password, hasUser>>
           [] msg.cmd = "NICK" ->
                /\ nick' = handleUnregisteredNick(msg).nick
                /\ Start("reader", handleUnregisteredNick(msg).ops \o <<Op("regcheck")>>)
                /\ UNCHANGED <<password, hasUser>>
           [] msg.cmd = "PASS" ->
                /\ password' = handleUnregisteredPass(msg).password
                /\ Start("reader", handleUnregisteredPass(msg).ops \o <<Op("regcheck")>>)
                /\ UNCHANGED <<nick, hasUser>>
           [] msg.cmd = "USER" ->
                /\ hasUser' = handleUnregisteredUser(msg)
                /\ Start("reader", <<Op("regcheck")>>)
                /\ UNCHANGED <<nick, password>>

\* Manager.receive: Scan returned a line and handleIncoming runs on it.
ReadUnregistered ==
    /\ ~crashed /\ pc["reader"] = "scan" /\ nCmds < MaxCmds /\ Inputs < MaxInputs
    /\ ~registered
    /\ \E m \in Readable(UnregisteredInputs, UnregisteredRefused) :
          /\ lastMsg' = m
          /\ handleIncomingUnregistered(m)
          /\ nRefused' = IF m \in UnregisteredRefused THEN nRefused + 1 ELSE nRefused
    /\ nCmds' = nCmds + 1
    /\ UNCHANGED <<registered, pyx, gameVars, ioVars, chanVars, pyxVars, answer, request,
                   nEvents, nFaults, loginFailed, call>>

\* Manager.receive: Scan failed (the peer closed, or the socket is closed).
ReadFail ==
    /\ ~crashed /\ pc["reader"] = "scan" /\ nCmds < MaxCmds /\ Inputs < MaxInputs
    /\ nCmds' = nCmds + 1
    /\ lastMsg' = NoMsg
    /\ Start("reader", <<Op("unreg"), Op("sockclose"), Op("ret")>>)
    /\ UNCHANGED <<sessVars, gameVars, ioVars, chanVars, pyxVars, answer, request, nRefused,
                   nEvents, nFaults, loginFailed, call>>

\* ------------------------------------------------------ the registration burst
\* Client.joinChannel: the JOIN line, then the topic and the names of the channel.
joinChannel(channel) ==
    <<OpSend(Line("JOIN", channel)), OpA("topic", channel), OpA("names", channel)>>

\* Client.sendWelcome
sendWelcome ==
    <<OpSend(Line("001", NoName)), OpSend(Line("002", NoName)),
      OpSend(Line("004", NoName)), OpSend(Line("005", NoName)),
      Op("lusers"), OpSend(Line("422", NoName)), Op("selfmode")>>
    \o joinChannel(GlobalChannel)

\* pyx.Client.Close, entered: the stopped flag is read first.
pyxClose == <<Op("closechk")>>

\* ------------------------------------------------- operations of a handler
\* client.data <- line: handed to the writer waiting in its select, or a panic
\* when the channel has been closed.
ExecSend(t) ==
    /\ Running(t) /\ HeadOp(t).op = "send"
    /\ IF dataClosed
       THEN Panic(t, "closed") /\ UNCHANGED whold
       ELSE /\ pc["writer"] = "recv"
            /\ whold' = HeadOp(t).l
            /\ pc' = [PcNext(t, <<>>) EXCEPT !["writer"] = "write"]
            /\ q' = QNext(t, <<>>)
            /\ panic' = panic
    /\ UNCHANGED <<sessVars, gameVars, wire, sockClosed, chanVars, pyxVars, cntVars, call>>

\* The last n elements of a sequence.
LastN(seq, n) == IF Len(seq) <= n THEN seq ELSE SubSeq(seq, Len(seq) - n + 1, Len(seq))

\* What reaches the socket when lines are written and flushed: nothing once the
\* socket is closed. wire is the tail of the stream, its last WireWindow lines.
Put(lines) == IF sockClosed THEN wire ELSE LastN(wire \o lines, WireWindow)

\* client.writer is a bufio.Writer shared without a lock. When a direct write
\* overlaps a write of Manager.send, both calls work on the same buffer and
\* count: one line overwrites the other, or the buffer is flushed twice.
RaceOutcomes(held, line) == {<<line>>, <<held>>, <<held, held, line>>}

\* client.writer.WriteString(line); client.writer.Flush() outside Manager.send
ExecDirect(t) ==
    /\ Running(t) /\ HeadOp(t).op = "direct"
    /\ \/ /\ wire' = Put(<<HeadOp(t).l>>)
          /\ Continue(t, <<>>)
       \/ /\ pc["writer"] = "write"
          /\ \E out \in RaceOutcomes(whold, HeadOp(t).l) : wire' = Put(out)
          /\ pc' = [PcNext(t, <<>>) EXCEPT !["writer"] = "recv"]
          /\ q' = QNext(t, <<>>)
          /\ panic' = panic
    /\ UNCHANGED <<sessVars, gameVars, whold, sockClosed, chanVars, pyxVars, cntVars, call>>

\* Manager.close, once a close is requested or client.close is closed.
closerTail == <<Op("unreg"), Op("sockclose"), Op("ret")>>

\* client.close <- true
ExecCloseReq(t) ==
    /\ Running(t) /\ HeadOp(t).op = "closereq"
    /\ IF closeClosed
       THEN Panic(t, "closed")
       ELSE /\ pc["closer"] = "recv"
            /\ pc' = [PcNext(t, <<>>) EXCEPT !["closer"] = "run"]
            /\ q' = [QNext(t, <<>>) EXCEPT !["closer"] = closerTail]
            /\ panic' = panic
    /\ UNCHANGED <<sessVars, gameVars, ioVars, chanVars, pyxVars, cntVars, call>>

\* if client.pyx != nil { client.pyx.LogOut() }: the logout request, then Close.
ExecLogout(t) ==
    /\ Running(t) /\ HeadOp(t).op = "logout"
    /\ IF pyx
       THEN /\ logouts' = logouts + 1
            /\ serial' = serial + 1
            /\ Continue(t, pyxClose)
       ELSE /\ UNCHANGED <<logouts, serial>>
            /\ Continue(t, <<>>)
    /\ UNCHANGED <<sessVars, gameVars, ioVars, chanVars, stopped, stopClosed, wg, evClosed,
                   cntVars, call>>

\* pyx.Client.Close: if client.stopped { return }
ExecCloseChk(t) ==
    /\ Running(t) /\ HeadOp(t).op = "closechk"
    /\ Continue(t, IF stopped THEN <<>> ELSE <<Op("closeset"), Op("wait"), Op("closeev")>>)
    /\ UNCHANGED <<sessVars, gameVars, ioVars, chanVars, pyxVars, cntVars, call>>

\* pyx.Client.Close: stopped = true; stop <- true; close(stop)
ExecCloseSet(t) ==
    /\ Running(t) /\ HeadOp(t).op = "closeset"
    /\ stopped' = TRUE
    /\ IF stopClosed
       THEN Panic(t, "closed") /\ UNCHANGED stopClosed
       ELSE stopClosed' = TRUE /\ Continue(t, <<>>)
    /\ UNCHANGED <<sessVars, gameVars, ioVars, chanVars, wg, evClosed, serial, logouts,
                   cntVars, call>>

\* pyx.Client.Close: pollWg.Wait()
ExecWait(t) ==
    /\ Running(t) /\ HeadOp(t).op = "wait"
    /\ wg = 0
    /\ Continue(t, <<>>)
    /\ UNCHANGED <<sessVars, gameVars, ioVars, chanVars, pyxVars, cntVars, call>>

\* pyx.Client.Close: close(client.IncomingEvents)
ExecCloseEv(t) ==
    /\ Running(t) /\ HeadOp(t).op = "closeev"
    /\ IF evClosed
       THEN Panic(t, "reclose") /\ UNCHANGED evClosed
       ELSE evClosed' = TRUE /\ Continue(t, <<>>)
    /\ UNCHANGED <<sessVars, gameVars, ioVars, chanVars, stopped, stopClosed, wg, serial,
                   logouts, cntVars, call>>

\* manager.unregister <- client, taken by listenForConnections
ExecUnreg(t) ==
    /\ Running(t) /\ HeadOp(t).op = "unreg"
    /\ ~regBusy
    /\ regBusy' = TRUE
    /\ Continue(t, <<>>)
    /\ UNCHANGED <<sessVars, gameVars, ioVars, dataClosed, closeClosed, inRegistry, pyxVars,
                   cntVars, call>>

\* client.socket.Close()
ExecSockClose(t) ==
    /\ Running(t) /\ HeadOp(t).op = "sockclose"
    /\ sockClosed' = TRUE
    /\ Continue(t, <<>>)
    /\ UNCHANGED <<sessVars, gameVars, whold, wire, chanVars, pyxVars, cntVars, call>>

\* ------------------------------------------------------------- registration
\* logInToPyx succeeded: pyx.NewClient made its two requests (first load,
\* register) and started the long poll; dispatchPyxEvents is started.
LoginOk ==
    /\ pyx' = TRUE
    /\ serial' = 2
    /\ pc' = [PcNext("reader", <<Op("setreg")>>) EXCEPT !["disp"] = "recv", !["poll"] = "start"]
    /\ q' = QNext("reader", <<Op("setreg")>>)
    /\ UNCHANGED <<nFaults, loginFailed, panic>>

\* logInToPyx failed: client.pyx stays nil and the connection is closed.
LoginFails ==
    /\ MayFail
    /\ nFaults' = nFaults + 1
    /\ loginFailed' = TRUE
    /\ Continue("reader", disconnect)
    /\ UNCHANGED <<pyx, serial>>

\* Variant: the login is tried as soon as one of the two is there.
MayRegisterEither == nick # NoName \/ hasUser

\* handleIncomingUnregistered, line 134: client.nick != "" && client.hasUser
MayRegister == nick # NoName /\ hasUser

\* handleIncomingUnregistered, lines 134-145
ExecRegCheck ==
    /\ Running("reader") /\ HeadOp("reader").op = "regcheck"
    /\ IF MayRegister
       THEN LoginOk \/ LoginFails
       ELSE Continue("reader", <<>>) /\ UNCHANGED <<pyx, serial, nFaults, loginFailed>>
    /\ UNCHANGED <<registered, nick, password, hasUser, gameVars, ioVars, chanVars,
                   stopped, stopClosed, wg, evClosed, logouts, lastMsg, answer, request, nCmds, nRefused, nEvents, call>>

\* client.registered = true; client.sendWelcome()
ExecSetReg ==
    /\ Running("reader") /\ HeadOp("reader").op = "setreg"
    /\ registered' = TRUE
    /\ Continue("reader", sendWelcome)
    /\ UNCHANGED <<nick, password, hasUser, pyx, gameVars, ioVars, chanVars, pyxVars,
                   cntVars, call>>

\* ------------------------------------------------------------- Manager.send
\* client.writer.WriteString(message); client.writer.Flush()
WriterWrite ==
    /\ ~crashed /\ pc["writer"] = "write"
    /\ wire' = Put(<<whold>>)
    /\ pc' = [pc EXCEPT !["writer"] = "recv"]
    /\ UNCHANGED <<sessVars, gameVars, q, whold, sockClosed, chanVars, pyxVars,
                   cntVars, panic, call>>

\* client.data is closed: the goroutine returns and its deferred socket.Close() runs.
WriterClosed ==
    /\ ~crashed /\ pc["writer"] = "recv" /\ dataClosed
    /\ sockClosed' = TRUE
    /\ pc' = [pc EXCEPT !["writer"] = "done"]
    /\ UNCHANGED <<sessVars, gameVars, q, whold, wire, chanVars, pyxVars,
                   cntVars, panic, call>>

\* ------------------------------------------------------------ Manager.close
\* client.close is closed: the receive yields !ok.
CloserClosed ==
    /\ ~crashed /\ pc["closer"] = "recv" /\ closeClosed
    /\ Start("closer", closerTail)
    /\ UNCHANGED <<sessVars, gameVars, ioVars, chanVars, pyxVars, cntVars, call>>

\* --------------------------------------------- Manager.listenForConnections
\* A listener that closes the channels of every client it is handed.
knownAlways == TRUE

\* _, ok := manager.clients[client]
known == inRegistry

\* case client := <-manager.unregister: close(client.data), close(client.close)
\* and delete(manager.clients, client) for a client of the map; the close of a
\* closed channel is a panic of the listener goroutine.
Unregister ==
    /\ ~crashed /\ regBusy
    /\ regBusy' = FALSE
    /\ IF known
       THEN IF dataClosed \/ closeClosed
            THEN /\ Panic("manager", "reclose")
                 /\ UNCHANGED <<dataClosed, closeClosed, inRegistry>>
            ELSE /\ dataClosed' = TRUE /\ closeClosed' = TRUE /\ inRegistry' = FALSE
                 /\ UNCHANGED <<pc, q, panic>>
       ELSE UNCHANGED <<dataClosed, closeClosed, inRegistry, pc, q, panic>>
    /\ UNCHANGED <<sessVars, gameVars, ioVars, pyxVars, cntVars, call>>

\* ------------------------------------------------------ registered commands
RegisteredHandlers == {"CAP", "JOIN", "NAMES", "NICK", "PART", "PASS", "PING", "PRIVMSG",
                       "QUIT", "USER"}

SpectateChannel(g) == Name(SpectateGameChannelPrefix, Itoa(g))
PlayChannel(g) == Name(GameChannelPrefix, Itoa(g))
BadChannel == Name(SpectateGameChannelPrefix, "x")
OtherNick == Name("carol", "")
\* A text is the sequence of its characters; CtcpMagic stands for the byte 1.
Text == <<"h", "i">>
CtcpMagic == "^A"

\* makeEmote: the magic byte, ACTION, a space, the text, the magic byte.
makeEmote(msg) ==
    <<CtcpMagic, "A", "C", "T", "I", "O", "N", " ">> \o msg \o <<CtcpMagic>>
Emote == makeEmote(<<"y", "o">>)

\* The channels a client names: the global channel, the spectate channel of each
\* game, and the play channel of the first game.
Channels == {GlobalChannel, PlayChannel(1)} \cup {SpectateChannel(g) : g \in GameIds}

\* The lines a registered client sends: those whose answer depends on the session,
\* and those that are refused whatever the session holds.
RegisteredInputs ==
    {Msg(c, <<ch>>) : c \in {"JOIN", "PART", "NAMES"}, ch \in Channels}
    \cup {Msg("PRIVMSG", <<ch, Text>>) : ch \in Channels}
    \cup {Msg("PRIVMSG", <<GlobalChannel, Emote>>), Msg("QUIT", <<>>), Msg("PING", <<>>)}
RegisteredRefused ==
    {Msg(c, <<>>) : c \in {"JOIN", "PART", "NAMES", "PRIVMSG", "CAP", "FOO"}}
    \cup {Msg(c, <<BadChannel>>) : c \in {"JOIN", "PART", "NAMES"}}
    \cup {Msg("PRIVMSG", <<ch, Text>>) : ch \in {BadChannel, OtherNick}}
    \cup {Msg("PRIVMSG", <<GlobalChannel>>), Msg("PRIVMSG", <<GlobalChannel, <<>>>>),
          Msg("NICK", <<OtherNick>>), Msg("USER", <<NoName>>), Msg("PASS", <<Password>>)}

\* strings.HasPrefix(channel, "#")
HasHash(channel) == channel.p \in {GlobalChannel.p, GameChannelPrefix, SpectateGameChannelPrefix}

\* Client.getGameFromChannel: the game id, the spectate flag, and whether the
\* name has the form of a game channel.
getGameFromChannel(channel) ==
    IF channel.p = GameChannelPrefix /\ AtoiOk(channel.s)
    THEN [id |-> Atoi(channel.s), spectate |-> FALSE, err |-> FALSE]
    ELSE IF channel.p = SpectateGameChannelPrefix /\ AtoiOk(channel.s)
         THEN [id |-> Atoi(channel.s), spectate |-> TRUE, err |-> FALSE]
         ELSE [id |-> 0 - 1, spectate |-> FALSE, err |-> TRUE]

\* Client.getGameChannel
getGameChannel ==
    IF gameId = NoGame THEN NoName
    ELSE IF gameIsSpectate THEN Name(SpectateGameChannelPrefix, Itoa(gameId))
         ELSE Name(GameChannelPrefix, Itoa(gameId))

\* The answers of the backend to one request: "ok", an application error code, or
\* "transport" for a request that failed (the response then carries no code).
LeaveAnswers == {"ok", "NOT_IN_THAT_GAME", "INVALID_GAME", "SERVER_ERROR", "transport"}
SpectateAnswers == {"ok", "CANNOT_JOIN_ANOTHER_GAME", "GAME_FULL", "INVALID_GAME",
                    "WRONG_PASSWORD", "SERVER_ERROR", "transport"}
InfoAnswers == {"ok", "INVALID_GAME", "transport"}
ChatAnswers == {"ok", "SERVER_ERROR"}

\* A request may be answered by ans now: failures are counted against MaxFaults.
MayAnswer(ans) == ans = "ok" \/ MayFail
FaultsAfter(ans) == IF ans = "ok" THEN nFaults ELSE nFaults + 1

\* A request to the backend (the form data of pyx.Client.send): the operation,
\* the game id, the message and the emote flag.
NoGameIdSentinel == 0 - 1
Request(op, game, text, emote) == [op |-> op, game |-> game, text |-> text, emote |-> emote]
NoRequest == Request("", NoGameIdSentinel, <<>>, FALSE)

\* pyx.Client.sendChat: a game chat when a game id is given.
sendChat(text, emote, wall, game) ==
    Request(IF game >= 0 THEN "gc" ELSE "c", game, text, emote)
SendGlobalChat(text, emote) == sendChat(text, emote, FALSE, NoGameIdSentinel)
SendGameChat(game, text, emote) == sendChat(text, emote, FALSE, game)
LeaveGame(game) == Request("lg", game, <<>>, FALSE)
SpectateGame(game, key) == Request("vg", game, key, FALSE)

\* Variant: every text is taken for an emote.
isEmoteAlways(msg) == [panics |-> FALSE, emote |-> TRUE, text |-> msg]

\* isEmote: whether the text is in the ACTION envelope, and the text without it.
\* msg[0] of an empty text is an index out of range.
isEmote(msg) ==
    IF msg = <<>> THEN [panics |-> TRUE, emote |-> FALSE, text |-> msg]
    ELSE IF /\ msg[1] = CtcpMagic /\ msg[Len(msg)] = CtcpMagic /\ Len(msg) > 6 + 2
            /\ SubSeq(msg, 2, 6 + 1) = <<"A", "C", "T", "I", "O", "N">>
         THEN [panics |-> FALSE, emote |-> TRUE, text |-> SubSeq(msg, 6 + 3, Len(msg) - 1)]
         ELSE [panics |-> FALSE, emote |-> FALSE, text |-> msg]

\* The effect of a command handler up to its first blocking operation.
\*   fault: a nil dereference; calls: backend requests made; req: the request;
\*   ops: what follows.
Effect(ops) == [fault |-> FALSE, calls |-> 0, ans |-> "ok", req |-> NoRequest, ops |-> ops,
                gameId |-> gameId, gameIsSpectate |-> gameIsSpectate,
                gameInProgress |-> gameInProgress]
Fault == [Effect(<<>>) EXCEPT !.fault = TRUE]
Reply(t, ch) == Effect(<<OpSend(Line(t, ch))>>)
Called(ans, eff) == [eff EXCEPT !.calls = 1, !.ans = ans]
Asked(req, ans, eff) == [Called(ans, eff) EXCEPT !.req = req]

handleRegisteredNick(msg) == Reply("447", NoName)
\* Variant: USER and PASS of a registered session run the registration check.
handleRegisteredUserAgain(msg) == Effect(<<Op("regcheck")>>)
handleRegisteredPassOrUser(msg) == Reply("462", NoName)
handlePing(msg) == Reply("PONG", NoName)
handleQuit(msg) == Effect(disconnect)
handleNames(msg) ==
    IF Len(msg.args) = 0 THEN Reply("461", NoName) ELSE Effect(<<OpA("names", msg.args[1])>>)

\* Variant: only a successful LeaveGame counts as having left.
LeftOnlyOk(ans) == ans = "ok"

\* handlePart, lines 661-662: the answers of LeaveGame after which the session
\* has left the game.
Left(ans) == ans \in {"ok", "NOT_IN_THAT_GAME", "INVALID_GAME"}

\* handlePart, with ans the backend's answer to LeaveGame when it is asked.
handlePart(msg, ans) ==
    IF Len(msg.args) = 0 THEN Reply("461", NoName)
    ELSE IF msg.args[1] = GlobalChannel THEN Effect(<<>>)
    ELSE LET g == getGameFromChannel(msg.args[1]) IN
         IF g.err THEN Reply("403", msg.args[1])
         ELSE IF gameId = NoGame THEN Fault
         ELSE IF g.id # gameId THEN Reply("403", msg.args[1])
         ELSE IF ~Left(ans)
              THEN Asked(LeaveGame(g.id), ans, Reply("435", msg.args[1]))
              ELSE Asked(LeaveGame(g.id), ans,
                         [Reply("PART", msg.args[1]) EXCEPT !.gameId = NoGame])

\* Variant: every rejection of the backend is answered alike.
joinRefusedAlike(channel, ans) == Reply("435", channel)

\* handleJoin, the switch on the error code of a rejected SpectateGame; the
\* line of the default case carries the error.
joinRefused(channel, ans) ==
    CASE ans = "CANNOT_JOIN_ANOTHER_GAME" -> Reply("405", channel)
      [] ans = "GAME_FULL" -> Reply("471", channel)
      [] ans = "INVALID_GAME" -> Reply("403", channel)
      [] ans = "WRONG_PASSWORD" -> Reply("475", channel)
      [] OTHER -> Effect(<<OpSend(LineX("435", channel, <<ans>>))>>)

\* handleJoin from the channel name on, with ans the backend's answer to
\* SpectateGame when it is asked.
joinGame(msg, ans) ==
         LET g == getGameFromChannel(msg.args[1]) IN
         IF g.err THEN Reply("448", msg.args[1])
         ELSE IF g.spectate
              THEN Asked(SpectateGame(g.id, IF Len(msg.args) >= 2 THEN msg.args[2] ELSE <<>>),
                         ans,
                         IF ans = "ok"
                         THEN [Effect(joinChannel(msg.args[1])) EXCEPT
                                    !.gameId = g.id, !.gameIsSpectate = g.spectate,
                                    !.gameInProgress = FALSE]
                         ELSE joinRefused(msg.args[1], ans))
              ELSE Reply("448", msg.args[1])

\* Variant: a session already in a game is not turned away.
handleJoinAgain(msg, ans) ==
    IF Len(msg.args) = 0 THEN Reply("461", NoName) ELSE joinGame(msg, ans)

\* handleJoin: a line without arguments, then a session already in a game.
handleJoin(msg, ans) ==
    IF Len(msg.args) = 0 THEN Reply("461", NoName)
    ELSE IF gameId # NoGame THEN Reply("405", msg.args[1])
    ELSE joinGame(msg, ans)

\* handlePrivmsg, with ans the backend's answer to the chat request when it is made.
handlePrivmsg(msg, ans) ==
    IF Len(msg.args) = 0 THEN Reply("461", NoName)
    ELSE IF Len(msg.args) = 1 \/ msg.args[2] = <<>> THEN Reply("412", NoName)
    ELSE LET e == isEmote(msg.args[2])
             sent == IF ans = "ok" THEN Effect(<<>>) ELSE Reply("404", msg.args[1])
         IN
         IF msg.args[1] = GlobalChannel THEN Asked(SendGlobalChat(e.text, e.emote), ans, sent)
         ELSE IF ~HasHash(msg.args[1]) THEN Reply("401", msg.args[1])
         ELSE LET g == getGameFromChannel(msg.args[1]) IN
              IF g.err THEN Reply("401", msg.args[1])
              ELSE IF gameId = NoGame THEN Fault
              ELSE IF g.id # gameId THEN Reply("401", msg.args[1])
              ELSE Asked(SendGameChat(g.id, e.text, e.emote), ans, sent)

\* The answers the backend can give to the request a command makes.
AnswersTo(msg) == CASE msg.cmd = "PART" -> LeaveAnswers
                    [] msg.cmd = "JOIN" -> SpectateAnswers
                    [] msg.cmd = "PRIVMSG" -> ChatAnswers
                    [] OTHER -> {"ok"}

\* handleIncomingRegistered: the table lookup and the handler.
Handled(msg, ans) ==
    IF msg.cmd \notin RegisteredHandlers THEN Reply("421", NoName)
    ELSE CASE msg.cmd = "CAP" -> Effect(handleCap(msg))
           [] msg.cmd = "JOIN" -> handleJoin(msg, ans)
           [] msg.cmd = "NAMES" -> handleNames(msg)
           [] msg.cmd = "NICK" -> handleRegisteredNick(msg)
           [] msg.cmd = "PART" -> handlePart(msg, ans)
           [] msg.cmd = "PING" -> handlePing(msg)
           [] msg.cmd = "PRIVMSG" -> handlePrivmsg(msg, ans)
           [] msg.cmd = "QUIT" -> handleQuit(msg)
           [] OTHER -> handleRegisteredPassOrUser(msg)

handleIncomingRegistered(msg, ans) ==
    LET eff == Handled(msg, ans) IN
    /\ eff.calls = 0 => ans = "ok"
    /\ MayAnswer(ans)
    /\ nFaults' = FaultsAfter(ans)
    /\ serial' = serial + eff.calls
    /\ gameId' = eff.gameId
    /\ gameIsSpectate' = eff.gameIsSpectate
    /\ gameInProgress' = eff.gameInProgress
    /\ answer' = IF eff.calls = 0 THEN "" ELSE ans
    /\ request' = eff.req
    /\ IF eff.fault THEN Panic("reader", "nil") ELSE Start("reader", eff.ops)

ReadRegistered ==
    /\ ~crashed /\ pc["reader"] = "scan" /\ nCmds < MaxCmds /\ Inputs < MaxInputs
    /\ registered
    /\ \E m \in Readable(RegisteredInputs, RegisteredRefused) : \E ans \in AnswersTo(m) :
          /\ lastMsg' = m
          /\ handleIncomingRegistered(m, ans)
          /\ nRefused' = IF m \in RegisteredRefused THEN nRefused + 1 ELSE nRefused
    /\ nCmds' = nCmds + 1
    /\ UNCHANGED <<sessVars, gameHost, gamePlayedCards, ioVars, chanVars, stopped,
                   stopClosed, wg, evClosed, logouts, nEvents, loginFailed, call>>

\* ------------------------------------------- replies that ask the backend
Hosts == {Name("dave", "")}
\* The host the backend names once the host has left the game.
NewHosts == {Name("erin", "")}

\* Client.handleNamesImpl(channel)
ExecNames(t) ==
    /\ Running(t) /\ HeadOp(t).op = "names"
    /\ LET channel == HeadOp(t).a
           g == getGameFromChannel(channel)
           list == <<OpSend(Line("353", channel)), OpSend(Line("366", channel))>>
       IN
       IF channel = GlobalChannel
       THEN /\ serial' = serial + 1
            /\ Continue(t, list)
            /\ UNCHANGED <<gameHost, nFaults>>
       ELSE IF g.err
       THEN /\ Continue(t, <<OpSend(Line("442", channel))>>)
            /\ UNCHANGED <<serial, gameHost, nFaults>>
       ELSE IF gameId = NoGame
       THEN Panic(t, "nil") /\ UNCHANGED <<serial, gameHost, nFaults>>
       ELSE IF g.id # gameId
       THEN /\ Continue(t, <<OpSend(Line("442", channel))>>)
            /\ UNCHANGED <<serial, gameHost, nFaults>>
       ELSE \E ans \in InfoAnswers :
               /\ MayAnswer(ans)
               /\ nFaults' = FaultsAfter(ans)
               /\ serial' = serial + 1
               /\ IF ans = "ok"
                  THEN \E host \in Hosts : gameHost' = host /\ Continue(t, list)
                  ELSE /\ Continue(t, <<OpSend(Line("435", channel))>>)
                       /\ UNCHANGED gameHost
    /\ UNCHANGED <<sessVars, gameId, gameIsSpectate, gameInProgress, gamePlayedCards, ioVars,
                   chanVars, stopped, stopClosed, wg, evClosed, logouts, lastMsg, answer, request, nCmds, nRefused, nEvents,
                   loginFailed, call>>

\* Client.handleTopicImpl(channel)
ExecTopic(t) ==
    /\ Running(t) /\ HeadOp(t).op = "topic"
    /\ LET channel == HeadOp(t).a
           g == getGameFromChannel(channel)
           topic == <<OpSend(Line("332", channel)), OpSend(Line("333", channel))>>
           notOn == <<OpSend(Line("442", channel))>>
       IN
       IF channel = GlobalChannel
       THEN Continue(t, topic) /\ UNCHANGED <<serial, nFaults>>
       ELSE IF gameId = NoGame \/ g.err \/ g.id # gameId
       THEN Continue(t, notOn) /\ UNCHANGED <<serial, nFaults>>
       ELSE \E ans \in InfoAnswers :
               /\ MayAnswer(ans)
               /\ nFaults' = FaultsAfter(ans)
               /\ serial' = serial + 1
               /\ Continue(t, IF ans = "ok" THEN topic ELSE notOn)
    /\ UNCHANGED <<sessVars, gameVars, ioVars, chanVars, stopped, stopClosed, wg, evClosed,
                   logouts, lastMsg, answer, request, nCmds, nRefused, nEvents, loginFailed, call>>

\* Client.sendLUsers: the game list and the names are asked (getChannels), then
\* the names again; the first request that fails ends it with one 435.
ExecLUsers(t) ==
    /\ Running(t) /\ HeadOp(t).op = "lusers"
    /\ \E failing \in 0..3 :
          /\ failing # 0 => MayFail
          /\ nFaults' = IF failing = 0 THEN nFaults ELSE nFaults + 1
          /\ serial' = serial + (IF failing = 0 THEN 3 ELSE failing)
          /\ Continue(t, IF failing = 0
                         THEN <<OpSend(Line("251", NoName)), OpSend(Line("252", NoName)),
                                OpSend(Line("254", NoName)), OpSend(Line("255", NoName)),
                                OpSend(Line("265", NoName)), OpSend(Line("266", NoName))>>
                         ELSE <<OpSend(Line("435", NoName))>>)
    /\ UNCHANGED <<sessVars, gameVars, ioVars, chanVars, stopped, stopClosed, wg, evClosed,
                   logouts, lastMsg, answer, request, nCmds, nRefused, nEvents, loginFailed, call>>

\* Client.sendWelcome, lines 151-160: the MODE line of an admin or of a user with
\* an id code.
ExecSelfMode(t) ==
    /\ Running(t) /\ HeadOp(t).op = "selfmode"
    /\ \E plain \in BOOLEAN :
          Continue(t, IF plain THEN <<>> ELSE <<OpSend(Line("MODE", nick))>>)
    /\ UNCHANGED <<sessVars, gameVars, ioVars, chanVars, pyxVars, cntVars, call>>

\* ------------------------------------------------------------ backend events
\* client.gamePlayedCards: nil, or the groupings of the last JUDGING event.
NilCards == [nil |-> TRUE, v |-> <<>>]
Cached(cards) == [nil |-> FALSE, v |-> cards]

\* The white cards of a round: each play is a grouping of cards, given by their
\* ids; no card is played twice.
Plays == {<<<<1, 2>>, <<3>>>>, <<<<2>>, <<3, 1>>>>}

Ev(kind) == [NoEvent EXCEPT !.ev = kind]

\* The events the backend sends to any logged-in user.
SessionEvents ==
    {Ev("CHAT"), [Ev("CHAT") EXCEPT !.self = TRUE], [Ev("CHAT") EXCEPT !.wall = TRUE],
     Ev("KICKED"), Ev("BANNED"), Ev("GAME_LIST_REFRESH"), Ev("NOOP"), Ev("CARDCAST_ADD")}

\* The events the backend sends to the users in game g.
GameEvents(g) ==
    {[Ev("CHAT") EXCEPT !.game = g]}
    \cup {[Ev("GAME_STATE_CHANGE") EXCEPT !.game = g, !.state = "JUDGING", !.cards = c] :
             c \in Plays}
    \cup {[Ev("GAME_ROUND_COMPLETE") EXCEPT !.game = g, !.win = w] : w \in 1..MaxCard}
    \cup {[Ev("GAME_STATE_CHANGE") EXCEPT !.game = g, !.state = st] :
             st \in {"LOBBY", "PLAYING"}}
    \cup {[Ev("GAME_PLAYER_LEAVE") EXCEPT !.game = g, !.who = h] : h \in Hosts}
    \cup {[Ev("GAME_PLAYER_LEAVE") EXCEPT !.game = g, !.who = nick, !.self = TRUE],
          [Ev("GAME_SPECTATOR_LEAVE") EXCEPT !.game = g, !.who = OtherNick],
          [Ev("GAME_PLAYER_KICKED_IDLE") EXCEPT !.game = g, !.who = Name("dave", "")],
          [Ev("GAME_PLAYER_INFO_CHANGE") EXCEPT !.game = g]}

\* What the long poll may return now: the session is sent the events of the game
\* it is in.
EventInputs == SessionEvents \cup (IF gameId = NoGame THEN {} ELSE GameEvents(gameId))

\* The share of MaxInputs an event takes: a session event may arrive at any point
\* of the session and costs more of the bound than a game event. One answer of
\* the long poll counts once: as a session event when it holds one, by the
\* number of its game events otherwise.
Cost(event) == IF event.game = NoGame THEN SessionEventCost ELSE 1
BatchCost(batch) ==
    IF \E i \in 1..Len(batch) : batch[i].game = NoGame THEN SessionEventCost
    ELSE Len(batch)

EventHandlers ==
    {"BANNED", "CHAT", "KICKED", "FILTERED_CHAT", "GAME_BLACK_RESHUFFLE", "GAME_LIST_REFRESH",
     "GAME_PLAYER_INFO_CHANGE", "GAME_PLAYER_JOIN", "GAME_PLAYER_KICKED_IDLE",
     "GAME_PLAYER_LEAVE", "GAME_PLAYER_SKIPPED", "GAME_ROUND_COMPLETE", "GAME_SPECTATOR_JOIN",
     "GAME_SPECTATOR_LEAVE", "GAME_STATE_CHANGE", "GAME_WHITE_RESHUFFLE", "NEW_PLAYER",
     "PLAYER_LEAVE"}

\* Client.sendBotMessageToGame: the channel is read when the message is sent.
BotMsg(tag, x) == [op |-> "botmsg", l |-> LineX(tag, NoName, x), a |-> NoName, e |-> NoEvent]

\* The effect of an event handler up to its first blocking operation.
EvEffect(ops) == [fault |-> FALSE, ops |-> ops, gamePlayedCards |-> gamePlayedCards,
                  gameInProgress |-> gameInProgress]
EvFault == [EvEffect(<<>>) EXCEPT !.fault = TRUE]

\* doKickOrBan: the KILL notice is written and flushed directly, then disconnect.
doKickOrBan == <<OpL("direct", Line("KILL", NoName))>> \o disconnect
eventBanned(event) == EvEffect(doKickOrBan)
eventKicked(event) == EvEffect(doKickOrBan)
\* Variant: an ignored event is reported to the user.
eventIgnoreLoud(event) == EvEffect(<<OpSend(Line("PRIVMSG", nick))>>)
eventIgnore(event) == EvEffect(<<>>)

\* eventGamePlayerLeave (also the handler of a spectator's leave) and
\* eventGamePlayerKickedIdle: the line about the one who left, then
\* processPlayerLeave.
eventGamePlayerLeave(event) ==
    IF event.self THEN EvEffect(<<>>)
    ELSE EvEffect(<<OpSend(LineX("PART", getGameChannel, <<event.who>>)), OpE("leave", event)>>)
eventGamePlayerKickedIdle(event) ==
    EvEffect(<<OpSend(LineX("KICK", getGameChannel, <<event.who>>)), OpE("leave", event)>>)

\* Variant: the topic change is sent whatever the flag.
sendTopicChangeAlways == [gameInProgress |-> TRUE, ops |-> <<Op("topicchange")>>]

\* Client.sendTopicChangeForStartedGame: the flag after it, and what it does.
sendTopicChangeForStartedGame ==
    [gameInProgress |-> TRUE,
     ops |-> IF gameInProgress THEN <<>> ELSE <<Op("topicchange")>>]

eventChat(event) ==
    IF event.self THEN EvEffect(<<>>)
    ELSE IF event.wall THEN EvEffect(<<OpSend(Line("NOTICE", NoName))>>)
    ELSE IF event.game # NoGame
         THEN IF gameId = NoGame THEN EvFault
              ELSE IF event.game = gameId
                   THEN EvEffect(<<OpSend(Line("PRIVMSG",
                           IF gameIsSpectate
                           THEN Name(SpectateGameChannelPrefix, Itoa(event.game))
                           ELSE Name(GameChannelPrefix, Itoa(event.game))))>>)
                   ELSE EvEffect(<<>>)
         ELSE EvEffect(<<OpSend(Line("PRIVMSG", GlobalChannel))>>)

\* whiteCardText: the text and the watermark of a card.
whiteCardText(card) == Name(Itoa(card), "wm")

\* " [text]" appended for each card of a grouping, in order.
Rendered(cards) == [i \in 1..Len(cards) |-> whiteCardText(cards[i])]

\* eventGameStateChange: the cases LOBBY, PLAYING and JUDGING.
eventGameStateChange(event) ==
    CASE event.state = "LOBBY" ->
            EvEffect(<<Op("topicchange"), BotMsg("lobby", <<>>), Op("clearprogress")>>)
      [] event.state = "PLAYING" ->
            [EvEffect(sendTopicChangeForStartedGame.ops
                      \o <<BotMsg("black", <<>>), OpE("judge", event)>>)
             EXCEPT !.gameInProgress = sendTopicChangeForStartedGame.gameInProgress]
      [] event.state = "JUDGING" ->
            IF event.cards = <<>>
            THEN [EvFault EXCEPT !.gamePlayedCards = Cached(event.cards)]
            ELSE [EvEffect(<<BotMsg("cards", <<>>)>>
                           \o [i \in 1..Len(event.cards) |->
                                  BotMsg("selection", Rendered(event.cards[i]))]
                           \o <<OpE("judge", event)>>)
                  EXCEPT !.gamePlayedCards = Cached(event.cards)]
      [] OTHER -> EvEffect(<<>>)

\* Variant: the first cached grouping, whatever the winning card.
winningCardAny(played, id) == IF played = <<>> THEN <<>> ELSE Rendered(Head(played))

\* eventGameRoundComplete, lines 306-316: the cards of the first cached grouping
\* whose first card is the winning card.
RECURSIVE winningCard(_, _)
winningCard(played, id) ==
    IF played = <<>> THEN <<>>
    ELSE IF Head(played)[1] = id THEN Rendered(Head(played))
         ELSE winningCard(Tail(played), id)

eventGameRoundComplete(event) ==
    IF gamePlayedCards.nil THEN EvFault
    ELSE EvEffect(<<BotMsg("won", winningCard(gamePlayedCards.v, event.win)),
                    Op("scoreboard")>>)

\* dispatchPyxEvents, lines 882-888: the handler of the event's kind, or the raw
\* event sent to the user as a message of the bridge.
Translated(event) ==
    IF event.ev \notin EventHandlers THEN EvEffect(<<OpSend(Line("PRIVMSG", nick))>>)
    ELSE CASE event.ev = "BANNED" -> eventBanned(event)
           [] event.ev = "KICKED" -> eventKicked(event)
           [] event.ev = "CHAT" -> eventChat(event)
           [] event.ev = "GAME_ROUND_COMPLETE" -> eventGameRoundComplete(event)
           [] event.ev = "GAME_STATE_CHANGE" -> eventGameStateChange(event)
           [] event.ev \in {"GAME_PLAYER_LEAVE", "GAME_SPECTATOR_LEAVE"} ->
                eventGamePlayerLeave(event)
           [] event.ev = "GAME_PLAYER_KICKED_IDLE" -> eventGamePlayerKickedIdle(event)
           [] event.ev \in {"GAME_LIST_REFRESH", "GAME_PLAYER_INFO_CHANGE"} ->
                eventIgnore(event)

\* ------------------------------------------------------- pyx.Client.receive
\* pollWg.Add(1)
PollStart ==
    /\ ~crashed /\ pc["poll"] = "start"
    /\ wg' = wg + 1
    /\ pc' = [pc EXCEPT !["poll"] = "select"]
    /\ UNCHANGED <<sessVars, gameVars, q, ioVars, chanVars, stopped, stopClosed, evClosed,
                   serial, logouts, cntVars, panic, call>>

\* case <-client.stop
PollStopped ==
    /\ ~crashed /\ pc["poll"] = "select" /\ stopClosed
    /\ wg' = wg - 1
    /\ pc' = [pc EXCEPT !["poll"] = "done"]
    /\ UNCHANGED <<sessVars, gameVars, q, ioVars, chanVars, stopped, stopClosed, evClosed,
                   serial, logouts, cntVars, panic, call>>

\* dispatchSinglePyxEvent on each event of the response: a no-op is dropped.
RECURSIVE Deliveries(_)
Deliveries(batch) ==
    IF batch = <<>> THEN <<>>
    ELSE (IF Head(batch).ev = "NOOP" THEN <<>> ELSE <<OpE("deliver", Head(batch))>>)
         \o Deliveries(Tail(batch))

\* What one long poll returns: one event, or an array of two events.
Batches(first) == {<<first>>} \cup {<<first, f>> : f \in EventInputs}

\* default: the long poll returned one event or an array of events.
PollEvents ==
    /\ ~crashed /\ pc["poll"] = "select" /\ ~stopClosed
    /\ \E first \in EventInputs :
          /\ Inputs + Cost(first) <= MaxInputs
          /\ \E batch \in Batches(first) :
                /\ Inputs + BatchCost(batch) <= MaxInputs
                /\ nEvents' = nEvents + BatchCost(batch)
                /\ Start("poll", Deliveries(batch))
    /\ UNCHANGED <<sessVars, gameVars, ioVars, chanVars, pyxVars, lastMsg, answer, request, nCmds, nRefused, nFaults,
                   loginFailed, call>>

\* default: the long poll failed (transport error, no JSON, a bare error object):
\* pollWg.Done(), then Close.
PollError ==
    /\ ~crashed /\ pc["poll"] = "select" /\ ~stopClosed
    /\ Inputs + PollErrorCost <= MaxInputs
    /\ nEvents' = nEvents + PollErrorCost
    /\ wg' = wg - 1
    /\ Start("poll", pyxClose \o <<Op("ret")>>)
    /\ UNCHANGED <<sessVars, gameVars, ioVars, chanVars, stopped, stopClosed, evClosed,
                   serial, logouts, lastMsg, answer, request, nCmds, nRefused, nFaults, loginFailed, call>>

\* client.IncomingEvents <- event, received by dispatchPyxEvents, which runs the
\* handler of the event.
ExecDeliver ==
    /\ Running("poll") /\ HeadOp("poll").op = "deliver"
    /\ IF evClosed
       THEN Panic("poll", "closed") /\ UNCHANGED <<gamePlayedCards, gameInProgress>>
       ELSE LET eff == Translated(HeadOp("poll").e) IN
            /\ pc["disp"] = "recv"
            /\ gamePlayedCards' = eff.gamePlayedCards
            /\ gameInProgress' = eff.gameInProgress
            /\ q' = [QNext("poll", <<>>) EXCEPT !["disp"] = eff.ops]
            /\ pc' = [PcNext("poll", <<>>) EXCEPT
                         !["disp"] = IF eff.fault THEN "dead"
                                     ELSE IF eff.ops = <<>> THEN "recv" ELSE "run"]
            /\ panic' = IF eff.fault THEN [by |-> "disp", why |-> "nil"] ELSE panic
    /\ UNCHANGED <<sessVars, gameId, gameIsSpectate, gameHost, ioVars,
                   chanVars, pyxVars, cntVars, call>>

\* ------------------------------------------------ Client.dispatchPyxEvents
\* client.pyx.IncomingEvents is closed: disconnect, and return.
DispClosed ==
    /\ ~crashed /\ pc["disp"] = "recv" /\ evClosed
    /\ Start("disp", disconnect \o <<Op("ret")>>)
    /\ UNCHANGED <<sessVars, gameVars, ioVars, chanVars, pyxVars, cntVars, call>>

\* sendBotMessageToGame: the line is formatted with the current game channel.
ExecBotMsg(t) ==
    /\ Running(t) /\ HeadOp(t).op = "botmsg"
    /\ Continue(t, <<OpSend([HeadOp(t).l EXCEPT !.ch = getGameChannel])>>)
    /\ UNCHANGED <<sessVars, gameVars, ioVars, chanVars, pyxVars, cntVars, call>>

\* eventGameStateChange, lines 258-271 and 287-298: the judge is asked from the
\* backend and named; in the judging state the user who judges is told nothing.
ExecJudge(t) ==
    /\ Running(t) /\ HeadOp(t).op = "judge"
    /\ IF HeadOp(t).e.game = NoGame
       THEN Panic(t, "nil") /\ UNCHANGED <<serial, nFaults>>
       ELSE \E ans \in InfoAnswers : \E selfJudges \in BOOLEAN :
               /\ MayAnswer(ans)
               /\ nFaults' = FaultsAfter(ans)
               /\ serial' = serial + 1
               /\ Continue(t, IF ans # "ok" THEN <<>>
                              ELSE IF HeadOp(t).e.state = "PLAYING"
                                   THEN <<BotMsg(IF selfJudges THEN "judging" ELSE "judge", <<>>)>>
                              ELSE IF selfJudges THEN <<>> ELSE <<BotMsg("wait", <<>>)>>)
    /\ UNCHANGED <<sessVars, gameVars, ioVars, chanVars, stopped, stopClosed, wg, evClosed,
                   logouts, lastMsg, answer, request, nCmds, nRefused, nEvents, loginFailed, call>>

\* Client.showScoreboard
ExecScoreboard(t) ==
    /\ Running(t) /\ HeadOp(t).op = "scoreboard"
    /\ IF gameId = NoGame
       THEN Panic(t, "nil") /\ UNCHANGED <<serial, nFaults>>
       ELSE \E ans \in InfoAnswers :
               /\ MayAnswer(ans)
               /\ nFaults' = FaultsAfter(ans)
               /\ serial' = serial + 1
               /\ Continue(t, IF ans = "ok" THEN <<BotMsg("scores", <<>>)>> ELSE <<>>)
    /\ UNCHANGED <<sessVars, gameVars, ioVars, chanVars, stopped, stopClosed, wg, evClosed,
                   logouts, lastMsg, answer, request, nCmds, nRefused, nEvents, loginFailed, call>>

\* Client.sendTopicChange: the game is asked from the backend and its topic sent.
ExecTopicChange(t) ==
    /\ Running(t) /\ HeadOp(t).op = "topicchange"
    /\ IF gameId = NoGame
       THEN Panic(t, "nil") /\ UNCHANGED <<serial, nFaults>>
       ELSE \E ans \in InfoAnswers :
               /\ MayAnswer(ans)
               /\ nFaults' = FaultsAfter(ans)
               /\ serial' = serial + 1
               /\ Continue(t, IF ans = "ok" THEN <<OpSend(Line("TOPIC", getGameChannel))>>
                              ELSE <<>>)
    /\ UNCHANGED <<sessVars, gameVars, ioVars, chanVars, stopped, stopClosed, wg, evClosed,
                   logouts, lastMsg, answer, request, nCmds, nRefused, nEvents, loginFailed, call>>

\* Variant: whoever leaves is taken for the host.
hostLeftAlways(event) == TRUE

\* processPlayerLeave, line 225: event.Nickname == client.gameHost
hostLeft(event) == event.who = gameHost

\* Client.processPlayerLeave: when the one who left is the recorded host the
\* game is asked from the backend, which names the host it has now.
ExecLeave(t) ==
    /\ Running(t) /\ HeadOp(t).op = "leave"
    /\ IF ~hostLeft(HeadOp(t).e)
       THEN Continue(t, <<Op("topicchange")>>) /\ UNCHANGED <<serial, nFaults>>
       ELSE IF gameId = NoGame
       THEN Panic(t, "nil") /\ UNCHANGED <<serial, nFaults>>
       ELSE \E ans \in InfoAnswers :
               /\ MayAnswer(ans)
               /\ nFaults' = FaultsAfter(ans)
               /\ serial' = serial + 1
               /\ IF ans = "INVALID_GAME"
                  THEN Continue(t, <<OpSend(LineX("KICK", getGameChannel, <<nick>>)),
                                     Op("cleargame")>>)
                  ELSE IF ans # "ok" THEN Continue(t, <<Op("topicchange")>>)
                  ELSE \E host \in NewHosts :
                          Continue(t, <<OpSend(LineX("MODE", getGameChannel, <<host>>)),
                                        Op("topicchange")>>)
    /\ UNCHANGED <<sessVars, gameVars, ioVars, chanVars, stopped, stopClosed, wg, evClosed,
                   logouts, lastMsg, answer, request, nCmds, nRefused, nEvents, loginFailed, call>>

\* The assignments that follow a send: client.gameId = nil (processPlayerLeave)
\* and client.gameInProgress = false (eventGameStateChange, LOBBY).
ExecAssign(t) ==
    /\ Running(t) /\ HeadOp(t).op \in {"cleargame", "clearprogress"}
    /\ gameId' = IF HeadOp(t).op = "cleargame" THEN NoGame ELSE gameId
    /\ gameInProgress' = IF HeadOp(t).op = "clearprogress" THEN FALSE ELSE gameInProgress
    /\ Continue(t, <<>>)
    /\ UNCHANGED <<sessVars, gameIsSpectate, gameHost, gamePlayedCards, ioVars, chanVars,
                   pyxVars, cntVars, call>>

\* ------------------------------------------------- functions on strings
\* A string is the sequence of its characters. call is one application of a
\* function: its name, its input, and its result once it has returned.

\* Whitespace: the space and the tab, on which unicode.IsSpace (TrimSpace) and
\* the class \s of whitespaceRegex agree.
IsSpace(c) == c \in {" ", "\t"}

\* Variant: nothing is trimmed.
TrimSpaceNot(s) == s

\* strings.TrimSpace
TrimSpace(s) ==
    LET kept == {i \in 1..Len(s) : ~IsSpace(s[i])} IN
    IF kept = {} THEN <<>>
    ELSE SubSeq(s, CHOOSE i \in kept : \A k \in kept : i <= k,
                   CHOOSE i \in kept : \A k \in kept : i >= k)

\* joinIntoLines, lines 830-841: the loop over the pieces, with ret and curLine
\* as they stand; panics when a piece cannot fit on a line.
RECURSIVE joinLoop(_, _, _, _, _)
joinLoop(charsPerLine, pieces, joiner, ret, curLine) ==
    IF pieces = <<>> THEN [panics |-> FALSE, ret |-> Append(ret, curLine)]
    ELSE LET val == Head(pieces)
             trimmedJoiner == TrimSpace(joiner)
         IN
         IF Len(trimmedJoiner) + Len(val) > charsPerLine
         THEN [panics |-> TRUE, ret |-> <<>>]
         ELSE IF Len(curLine) = 0
              THEN joinLoop(charsPerLine, Tail(pieces), joiner, ret, val)
         ELSE IF Len(curLine) + Len(joiner) + Len(val) > charsPerLine
              THEN joinLoop(charsPerLine, Tail(pieces), joiner,
                            Append(ret, curLine \o trimmedJoiner), val)
         ELSE joinLoop(charsPerLine, Tail(pieces), joiner, ret,
                       curLine \o joiner \o val)

\* Variant: the loop starts at the second piece.
joinIntoLinesRest(charsPerLine, pieces, joiner) ==
    joinLoop(charsPerLine, IF pieces = <<>> THEN pieces ELSE Tail(pieces), joiner,
             <<>>, <<>>)

joinIntoLines(charsPerLine, pieces, joiner) ==
    joinLoop(charsPerLine, pieces, joiner, <<>>, <<>>)

CallJoinIntoLines ==
    /\ call.f = "joinIntoLines" /\ ~call.done
    /\ call' = [call EXCEPT !.done = TRUE,
                            !.out = joinIntoLines(call.in.charsPerLine, call.in.pieces,
                                                  call.in.joiner)]
    /\ UNCHANGED <<sessVars, gameVars, pc, q, ioVars, chanVars, pyxVars, cntVars, panic>>

\* whitespaceRegex.Split(s, -1): s cut at each run of whitespace.
RECURSIVE whitespaceSplit(_)
whitespaceSplit(s) ==
    IF \A i \in 1..Len(s) : ~IsSpace(s[i]) THEN <<s>>
    ELSE LET i == CHOOSE k \in 1..Len(s) :
                     IsSpace(s[k]) /\ \A m \in 1..(k - 1) : ~IsSpace(s[m])
             after == {k \in (i + 1)..Len(s) : ~IsSpace(s[k])}
             j == IF after = {} THEN Len(s) + 1
                  ELSE CHOOSE k \in after : \A m \in after : k <= m
         IN <<SubSeq(s, 1, i - 1)>> \o whitespaceSplit(SubSeq(s, j, Len(s)))

\* strings.ToUpper
ToUpper(s) ==
    [i \in 1..Len(s) |-> CASE s[i] = "a" -> "A" [] s[i] = "b" -> "B" [] OTHER -> s[i]]

\* Variant: the line is cut at its last ':'.
NewMessageLast(input) ==
    LET in == TrimSpace(input)
        colons == {i \in 1..Len(in) : in[i] = ":"}
    IN
    IF colons = {}
    THEN LET parts == whitespaceSplit(in) IN Msg(ToUpper(parts[1]), Tail(parts))
    ELSE LET c == CHOOSE i \in colons : \A k \in colons : i >= k
             bigparts == <<SubSeq(in, 1, c - 1), SubSeq(in, c + 1, Len(in))>>
             parts == whitespaceSplit(TrimSpace(bigparts[1]))
         IN Msg(ToUpper(parts[1]), Append(Tail(parts), bigparts[2]))

\* NewMessage: the command and the arguments of a line.
NewMessage(input) ==
    LET in == TrimSpace(input)
        colons == {i \in 1..Len(in) : in[i] = ":"}
    IN
    IF colons = {}
    THEN LET parts == whitespaceSplit(in) IN Msg(ToUpper(parts[1]), Tail(parts))
    ELSE LET c == CHOOSE i \in colons : \A k \in colons : i <= k
             bigparts == <<SubSeq(in, 1, c - 1), SubSeq(in, c + 1, Len(in))>>
             parts == whitespaceSplit(TrimSpace(bigparts[1]))
         IN Msg(ToUpper(parts[1]), Append(Tail(parts), bigparts[2]))

CallNewMessage ==
    /\ call.f = "NewMessage" /\ ~call.done
    /\ call' = [call EXCEPT !.done = TRUE, !.out = NewMessage(call.in)]
    /\ UNCHANGED <<sessVars, gameVars, pc, q, ioVars, chanVars, pyxVars, cntVars, panic>>

\* ------------------------------------------------------------ specification
\* A connection as NewManager sets it up: NewClient, and the three goroutines.
NewConnection ==
    /\ registered = FALSE /\ nick = NoName /\ password = NoName /\ hasUser = FALSE
    /\ pyx = FALSE
    /\ gameId = NoGame /\ gameIsSpectate = FALSE /\ gameInProgress = FALSE
    /\ gameHost = NoName /\ gamePlayedCards = NilCards
    /\ pc = [t \in Tasks |-> CASE t = "reader" -> "scan"
                               [] t = "writer" -> "recv"
                               [] t = "closer" -> "recv"
                               [] OTHER -> "off"]
    /\ q = [t \in Tasks |-> <<>>]
    /\ whold = NoLine /\ wire = <<>> /\ sockClosed = FALSE
    /\ dataClosed = FALSE /\ closeClosed = FALSE /\ regBusy = FALSE /\ inRegistry = TRUE
    /\ stopped = FALSE /\ stopClosed = FALSE /\ wg = 0 /\ evClosed = FALSE
    /\ serial = 0 /\ logouts = 0
    /\ lastMsg = NoMsg /\ answer = "" /\ request = NoRequest /\ nCmds = 0 /\ nRefused = 0 /\ nEvents = 0 /\ nFaults = 0 /\ loginFailed = FALSE
    /\ panic = NoPanic

Init == NewConnection /\ call = [f |-> "", in |-> <<>>, out |-> <<>>, done |-> FALSE]

OpTasks == {"reader", "closer", "poll", "disp"}

Next ==
    \/ ReadUnregistered \/ ReadRegistered \/ ReadFail
    \/ ExecRegCheck \/ ExecSetReg
    \/ WriterWrite \/ WriterClosed
    \/ CloserClosed \/ Unregister
    \/ PollStart \/ PollStopped \/ PollEvents \/ PollError \/ ExecDeliver \/ DispClosed
    \/ \E t \in OpTasks :
          \/ ExecSend(t) \/ ExecDirect(t) \/ ExecCloseReq(t)
          \/ ExecLogout(t) \/ ExecCloseChk(t) \/ ExecCloseSet(t) \/ ExecWait(t)
          \/ ExecCloseEv(t) \/ ExecUnreg(t) \/ ExecSockClose(t)
          \/ ExecNames(t) \/ ExecTopic(t) \/ ExecLUsers(t) \/ ExecSelfMode(t)
          \/ ExecBotMsg(t) \/ ExecJudge(t) \/ ExecScoreboard(t)
          \/ ExecTopicChange(t) \/ ExecLeave(t) \/ ExecAssign(t)

Spec == Init /\ [][Next]_vars

\* makeEmote applied to a text, and isEmote to a text or to what makeEmote
\* has returned.
CallMakeEmote ==
    /\ call.f = "makeEmote" /\ ~call.done
    /\ call' = [call EXCEPT !.done = TRUE, !.out = makeEmote(call.in)]
    /\ UNCHANGED <<sessVars, gameVars, pc, q, ioVars, chanVars, pyxVars, cntVars, panic>>

CallIsEmote ==
    /\ \/ call.f = "isEmote" /\ ~call.done /\ call' = [call EXCEPT !.done = TRUE,
                                                                  !.out = isEmote(call.in)]
       \/ call.f = "makeEmote" /\ call.done
          /\ call' = [f |-> "isEmote", in |-> call.out, out |-> isEmote(call.out),
                      done |-> TRUE]
    /\ UNCHANGED <<sessVars, gameVars, pc, q, ioVars, chanVars, pyxVars, cntVars, panic>>

\* The functions on strings, each applied once to an input of its domain:
\* joinIntoLines to names and scores, an empty piece, a piece with a space in
\* it and one that ends in a comma, with the joiners of its callers; NewMessage
\* to a line; makeEmote to a short text, isEmote to a short text and to the
\* texts that have some of the parts of the envelope.
FnInit ==
    LET Pieces == {<<>>, <<"a">>, <<"b", "b">>, <<"c", " ", "d">>, <<"e", ",">>}
        Joiners == {<<" ">>, <<",", " ">>}
        Chars == {"a", "B", " ", "\t", ":"}
        Texts == UNION {[1..n -> {"a", " ", CtcpMagic}] : n \in 0..MaxText}
        Near == {a \o w \o b \o x \o c :
                    a \in {<<>>, <<CtcpMagic>>}, w \in {<<"A", "C", "T", "I", "O", "N">>, <<"A">>},
                    b \in {<<>>, <<" ">>, <<"a">>}, x \in Texts, c \in {<<>>, <<CtcpMagic>>}}
    IN
    /\ NewConnection
    /\ \/ \E c \in 1..MaxChars, j \in Joiners, n \in 0..MaxPieces : \E p \in [1..n -> Pieces] :
             call = [f |-> "joinIntoLines", done |-> FALSE, out |-> <<>>,
                     in |-> [charsPerLine |-> c, pieces |-> p, joiner |-> j]]
       \/ \E n \in 0..MaxLine : \E i \in [1..n -> Chars] :
             call = [f |-> "NewMessage", done |-> FALSE, out |-> <<>>, in |-> i]
       \/ \E x \in Texts : call = [f |-> "makeEmote", done |-> FALSE, out |-> <<>>, in |-> x]
       \/ \E m \in Texts \cup Near :
             call = [f |-> "isEmote", done |-> FALSE, out |-> <<>>, in |-> m]
FnNext == CallJoinIntoLines \/ CallNewMessage \/ CallMakeEmote \/ CallIsEmote
FnSpec == FnInit /\ [][FnNext]_vars

\* ------------------------------------------------------------------ claims
\* The reader takes a line from the socket in this step.
Reads(cmd) == /\ pc["reader"] = "scan" /\ nCmds' = nCmds + 1
              /\ lastMsg' # NoMsg /\ lastMsg'.cmd = cmd

\* The first operation left to the reader after the step is the send of a line
\* of type t.
RepliesWith(t) == /\ q'["reader"] # <<>>
                  /\ Head(q'["reader"]).op = "send" /\ Head(q'["reader"]).l.t = t

\* No goroutine has a step of its own left: only the client or the backend can
\* make the session move again.
Quiet ==
    /\ ~crashed /\ ~regBusy
    /\ pc["reader"] \in {"scan", "done"}
    /\ pc["writer"] = "done" \/ (pc["writer"] = "recv" /\ ~dataClosed)
    /\ pc["closer"] = "done" \/ (pc["closer"] = "recv" /\ ~closeClosed)
    /\ pc["poll"] \in {"off", "done"} \/ (pc["poll"] = "select" /\ ~stopClosed)
    /\ pc["disp"] \in {"off", "done", "dead"} \/ (pc["disp"] = "recv" /\ ~evClosed)

\* C1: the registered flag is never true while the nickname is empty, USER has not
\* been received or there is no backend login, and it turns true only in the step
\* of handleIncomingUnregistered that follows the successful login.
C1_RegisteredOnlyAfterLogin ==
    /\ [](registered => (nick # NoName /\ hasUser /\ pyx))
    /\ [][(~registered /\ registered') =>
             (/\ pc["reader"] = "run" /\ HeadOp("reader").op = "setreg"
              /\ lastMsg.cmd \in UnregisteredHandlers
              /\ nick # NoName /\ hasUser /\ pyx)]_vars

C1_Witness == registered /\ nick \in Nicks /\ hasUser /\ pyx /\ lastMsg.cmd = "USER"

\* C2 as stated: every JOIN read while the session is in a game is answered 405,
\* asks the backend nothing and leaves the game id and the spectate flag alone.
C2_JoinRefusedWith405 ==
    [][(Reads("JOIN") /\ registered /\ gameId # NoGame) =>
          (/\ RepliesWith("405")
           /\ serial' = serial
           /\ gameId' = gameId /\ gameIsSpectate' = gameIsSpectate)]_vars

\* C2 amended: a JOIN that names a channel, read while the session is in a game,
\* is answered by the one line 405 for that channel, asks the backend nothing and
\* leaves the game id and the spectate flag alone.
C2_JoinOfChannelRefusedWith405 ==
    [][(Reads("JOIN") /\ registered /\ gameId # NoGame /\ Len(lastMsg'.args) > 0) =>
          (/\ q'["reader"] = <<OpSend(Line("405", lastMsg'.args[1]))>>
           /\ serial' = serial /\ answer' = ""
           /\ gameId' = gameId /\ gameIsSpectate' = gameIsSpectate)]_vars

C2_Witness ==
    /\ registered /\ gameId = 1 /\ gameIsSpectate
    /\ lastMsg = Msg("JOIN", <<SpectateChannel(2)>>) /\ answer = ""
    /\ pc["reader"] = "run" /\ HeadOp("reader") = OpSend(Line("405", SpectateChannel(2)))

\* C3: a PART of the channel of the game the session is in, answered by the
\* backend with NOT_IN_THAT_GAME or INVALID_GAME, clears the game id and enqueues
\* the PART line and nothing else.
C3_PartOfGoneGameLeaves ==
    [][(/\ Reads("PART") /\ registered /\ gameId # NoGame
        /\ Len(lastMsg'.args) > 0
        /\ ~getGameFromChannel(lastMsg'.args[1]).err
        /\ getGameFromChannel(lastMsg'.args[1]).id = gameId
        /\ answer' \in {"NOT_IN_THAT_GAME", "INVALID_GAME"}) =>
          (/\ gameId' = NoGame
           /\ q'["reader"] = <<OpSend(Line("PART", lastMsg'.args[1]))>>)]_vars

C3_Witness ==
    /\ lastMsg = Msg("PART", <<SpectateChannel(1)>>) /\ answer = "INVALID_GAME"
    /\ gameId = NoGame
    /\ pc["reader"] = "run" /\ HeadOp("reader") = OpSend(Line("PART", SpectateChannel(1)))

\* C4: when the round-complete event names as winning card the first card of the
\* k-th grouping cached by the last JUDGING event, the announcement carries the
\* texts of exactly the cards of that grouping, in their order.
C4_WinnerIsCachedGrouping ==
    [][\A k \in 1..Len(gamePlayedCards.v) :
          (/\ Running("poll") /\ HeadOp("poll").op = "deliver"
           /\ HeadOp("poll").e.ev = "GAME_ROUND_COMPLETE"
           /\ q'["poll"] # q["poll"] /\ ~evClosed
           /\ gamePlayedCards.v[k][1] = HeadOp("poll").e.win) =>
             (/\ q'["disp"] # <<>>
              /\ Head(q'["disp"]) =
                    BotMsg("won", [i \in 1..Len(gamePlayedCards.v[k]) |->
                                      whiteCardText(gamePlayedCards.v[k][i])]))]_vars

C4_Witness ==
    /\ gamePlayedCards = Cached(<<<<2>>, <<3, 1>>>>)
    /\ pc["disp"] = "run"
    /\ HeadOp("disp") = BotMsg("won", <<whiteCardText(3), whiteCardText(1)>>)

\* C5: a registered session that is in no game and sends PART, PRIVMSG or NAMES
\* for a well-formed game channel is answered by a numeric: the handler does not
\* dereference the missing game id.
C5_NoGameIsAnsweredLocally ==
    (/\ registered /\ gameId = NoGame
     /\ lastMsg.cmd \in {"PART", "PRIVMSG", "NAMES"} /\ Len(lastMsg.args) > 0
     /\ ~getGameFromChannel(lastMsg.args[1]).err)
    => panic # [by |-> "reader", why |-> "nil"]

\* C6: once an event handler has panicked and the session has come to rest, the
\* process is up, the socket is closed and the backend has been logged out.
C6_FaultInTranslationTearsDown ==
    (pc["disp"] = "dead" /\ Quiet) => (sockClosed /\ logouts > 0)

\* C7: when a logged-in session has ended (its socket is closed) and has come to
\* rest, a backend logout has been attempted.
C7_LogoutOnEveryEnd ==
    (pyx /\ sockClosed /\ Quiet) => logouts > 0

\* C8: the closing line is the last line on the wire.
C8_ClosingLineIsLast ==
    \A i \in 1..Len(wire) : wire[i].t = "ERROR" => i = Len(wire)

\* C9: each line the writer has taken from the channel reaches the open socket
\* once, right after the lines taken before it.
C9_WrittenInEnqueueOrder ==
    [][(pc["writer"] = "write" /\ pc'["writer"] = "recv" /\ ~sockClosed) =>
          wire' = LastN(wire \o <<whold>>, WireWindow)]_vars

\* C10: a session whose backend login has failed never becomes registered.
C10_FailedLoginNeverRegisters == loginFailed => ~registered

\* C11: before registration a line whose command is not in the table leaves the
\* reader with the one reply 451 and nothing else: no login is tried, nick,
\* password, hasUser and registered keep their values, and no close is requested.
C11_UnknownCommandIsNotFatal ==
    [][(/\ pc["reader"] = "scan" /\ nCmds' = nCmds + 1 /\ lastMsg' # NoMsg
        /\ ~registered /\ lastMsg'.cmd \notin UnregisteredHandlers) =>
          (/\ q'["reader"] = <<OpSend(Line("451", NoName))>>
           /\ pyx' = pyx /\ serial' = serial /\ loginFailed' = loginFailed
           /\ nick' = nick /\ password' = password /\ hasUser' = hasUser
           /\ registered' = registered
           /\ sockClosed' = sockClosed /\ pc'["closer"] = pc["closer"])]_vars

C11_Witness ==
    /\ ~registered /\ lastMsg = Msg("PING", <<>>) /\ nick \in Nicks
    /\ pc["reader"] = "run" /\ q["reader"] = <<OpSend(Line("451", NoName))>>
    /\ ~sockClosed /\ pc["closer"] = "recv"

\* C12: before registration QUIT is handled as a quit: the reader goes on with
\* the closing line, the close request and the logout of disconnect.
C12_UnregisteredQuitCloses ==
    [][(Reads("QUIT") /\ ~registered) =>
          (/\ Len(q'["reader"]) >= Len(disconnect)
           /\ SubSeq(q'["reader"], 1, Len(disconnect)) = disconnect)]_vars

\* C13: the step that sets registered leaves the reader with the burst in this
\* order: 001, 002, 004, 005, the LUSER lines, 422, the self MODE line when the
\* backend identity calls for it, then for the global channel the JOIN line, the
\* topic replies, the names replies and the channel mode replies.
C13_BurstEndsWithChannelMode ==
    [][(pc["reader"] = "run" /\ HeadOp("reader").op = "setreg" /\ registered') =>
          q'["reader"] =
             <<OpSend(Line("001", NoName)), OpSend(Line("002", NoName)),
               OpSend(Line("004", NoName)), OpSend(Line("005", NoName)),
               Op("lusers"), OpSend(Line("422", NoName)), Op("selfmode"),
               OpSend(Line("JOIN", GlobalChannel)), OpA("topic", GlobalChannel),
               OpA("names", GlobalChannel), OpA("mode", GlobalChannel)>>]_vars

\* C14: a JOIN of the spectate channel of game g, read while the session is in no
\* game and accepted by the backend, sets the membership to g as a spectator,
\* clears the round-in-progress flag and leaves the reader with the JOIN line, the
\* topic replies, the names replies and the channel mode replies for the channel.
C14_SpectateJoinEndsWithChannelMode ==
    [][(/\ Reads("JOIN") /\ registered /\ gameId = NoGame
        /\ Len(lastMsg'.args) > 0
        /\ ~getGameFromChannel(lastMsg'.args[1]).err
        /\ getGameFromChannel(lastMsg'.args[1]).spectate
        /\ answer' = "ok") =>
          (/\ gameId' = getGameFromChannel(lastMsg'.args[1]).id
           /\ gameIsSpectate' /\ ~gameInProgress'
           /\ q'["reader"] =
                 <<OpSend(Line("JOIN", lastMsg'.args[1])), OpA("topic", lastMsg'.args[1]),
                   OpA("names", lastMsg'.args[1]), OpA("mode", lastMsg'.args[1])>>)]_vars

\* C15: a PRIVMSG to the global channel with a plain text makes one request to
\* the backend, the global chat with that text and no emote flag; an error
\* answer leaves the reader with the one reply 404 for the channel, a success
\* with no reply.
C15_GlobalChatOnceThen404 ==
    [][(Reads("PRIVMSG") /\ registered /\ lastMsg'.args = <<GlobalChannel, Text>>) =>
          (/\ serial' = serial + 1
           /\ request' = Request("c", NoGameIdSentinel, Text, FALSE)
           /\ q'["reader"] = IF answer' = "ok" THEN <<>>
                             ELSE <<OpSend(Line("404", GlobalChannel))>>)]_vars

C15_Witness ==
    /\ lastMsg = Msg("PRIVMSG", <<GlobalChannel, Text>>) /\ answer = "SERVER_ERROR"
    /\ request = Request("c", NoGameIdSentinel, Text, FALSE)
    /\ pc["reader"] = "run" /\ q["reader"] = <<OpSend(Line("404", GlobalChannel))>>

\* The dispatcher receives an event of this kind from the poll in this step.
Delivers(kind) ==
    /\ Running("poll") /\ HeadOp("poll").op = "deliver" /\ HeadOp("poll").e.ev = kind
    /\ ~evClosed /\ q'["poll"] # q["poll"]

\* C16: a chat event that is no wall notice and is tagged with a game other than
\* the one the session is in, or tagged with a game while the session is in none,
\* is dropped: the handler returns without a line and the dispatcher waits for
\* the next event.
C16_ForeignGameChatIsDropped ==
    [][(/\ Delivers("CHAT")
        /\ ~HeadOp("poll").e.self /\ ~HeadOp("poll").e.wall
        /\ HeadOp("poll").e.game # NoGame /\ HeadOp("poll").e.game # gameId) =>
          (q'["disp"] = <<>> /\ pc'["disp"] = "recv" /\ panic' = panic)]_vars

\* C17: each request of the long poll takes the next sequence number of the
\* session, as every other request to the backend does.
C17_LongPollTakesSerial ==
    [][(pc["poll"] = "select" /\ pc'["poll"] # "select" /\ ~stopClosed) =>
          serial' = serial + 1]_vars

\* The application of joinIntoLines that has returned, and its lines.
Joined == call.f = "joinIntoLines" /\ call.done /\ ~call.out.panics

\* C18: joinIntoLines returns no line longer than charsPerLine.
C18_NoLineOverBudget ==
    Joined => \A i \in 1..Len(call.out.ret) : Len(call.out.ret[i]) <= call.in.charsPerLine

\* s cut at each occurrence of sep, as strings.Split does.
RECURSIVE SplitAt(_, _)
SplitAt(s, sep) ==
    LET hits == {i \in 1..(Len(s) - Len(sep) + 1) : SubSeq(s, i, i + Len(sep) - 1) = sep} IN
    IF hits = {} THEN <<s>>
    ELSE LET i == CHOOSE h \in hits : \A k \in hits : h <= k
         IN <<SubSeq(s, 1, i - 1)>> \o SplitAt(SubSeq(s, i + Len(sep), Len(s)), sep)

\* The pieces read back from the lines: a line that is followed by another
\* ends with the joiner as it stands at the end of a line, without its
\* whitespace; within a line the pieces are separated by the joiner.
RECURSIVE Unjoined(_, _)
Unjoined(lines, joiner) ==
    IF lines = <<>> THEN <<>>
    ELSE IF Len(lines) = 1 THEN SplitAt(lines[1], joiner)
    ELSE LET end == TrimSpace(joiner)
             line == lines[1]
             n == Len(line) - Len(end)
             body == IF n >= 0 /\ SubSeq(line, n + 1, Len(line)) = end
                     THEN SubSeq(line, 1, n) ELSE line
         IN SplitAt(body, joiner) \o Unjoined(Tail(lines), joiner)

RECURSIVE Tokens(_)
Tokens(s) ==
    IF s = <<>> THEN <<>>
    ELSE IF IsSpace(s[1]) THEN Tokens(Tail(s))
    ELSE LET ends == {n \in 1..Len(s) : n = Len(s) \/ IsSpace(s[n + 1])}
             n == CHOOSE e \in ends : \A k \in ends : e <= k
         IN <<SubSeq(s, 1, n)>> \o Tokens(SubSeq(s, n + 1, Len(s)))

\* C20: of a line without ':' NewMessage returns the first token in upper
\* case as the command and the other tokens, in order, as the arguments; of a
\* line without a token it returns the empty command and no arguments.
C20_CommandAndArgumentsAreTheTokens ==
    (/\ call.f = "NewMessage" /\ call.done
     /\ \A i \in 1..Len(call.in) : call.in[i] # ":") =>
       LET tokens == Tokens(call.in) IN
       /\ tokens = <<>> => call.out = Msg(<<>>, <<>>)
       /\ tokens # <<>> => call.out = Msg(ToUpper(tokens[1]), Tail(tokens))

C20_Witness ==
    /\ call.f = "NewMessage" /\ call.done
    /\ call.in = <<" ", "a", "\t", " ", "B">>
    /\ call.out = Msg(<<"A">>, <<<<"B">>>>)

\* C21: of a line with ':' NewMessage returns as the last argument what
\* follows the first ':' of the trimmed line, as it stands, and before it the
\* tokens that stand between the command and that ':'.
C21_TrailingArgumentIsVerbatim ==
    (/\ call.f = "NewMessage" /\ call.done
     /\ \E i \in 1..Len(call.in) : call.in[i] = ":") =>
       LET line == TrimSpace(call.in)
           c == CHOOSE i \in 1..Len(line) :
                    line[i] = ":" /\ \A k \in 1..(i - 1) : line[k] # ":"
           tokens == Tokens(SubSeq(line, 1, c - 1))
           middle == IF tokens = <<>> THEN <<>> ELSE Tail(tokens)
       IN call.out.args = Append(middle, SubSeq(line, c + 1, Len(line)))

C21_Witness ==
    /\ call.f = "NewMessage" /\ call.done
    /\ call.in = <<"a", " ", "B", ":", " ", "a">>
    /\ call.out = Msg(<<"A">>, <<<<"B">>, <<" ", "a">>>>)

\* C22: a JOIN of a spectate channel that the backend rejects is answered by
\* one line, 405, 471, 403 or 475 by the error code and 435 with the error for
\* any other; the session stays without a game and no JOIN line is enqueued.
C22_RejectedJoinIsOneNumeric ==
    [][(/\ Reads("JOIN") /\ registered /\ answer' \notin {"", "ok"}) =>
          LET channel == lastMsg'.args[1]
              numeric == CASE answer' = "CANNOT_JOIN_ANOTHER_GAME" -> Line("405", channel)
                           [] answer' = "GAME_FULL" -> Line("471", channel)
                           [] answer' = "INVALID_GAME" -> Line("403", channel)
                           [] answer' = "WRONG_PASSWORD" -> Line("475", channel)
                           [] OTHER -> LineX("435", channel, <<answer'>>)
          IN /\ request'.op = "vg"
             /\ q'["reader"] = <<OpSend(numeric)>>
             /\ gameId = NoGame /\ gameId' = NoGame
             /\ gameIsSpectate' = gameIsSpectate
             /\ gameInProgress' = gameInProgress]_vars

C22_Witness ==
    /\ registered /\ gameId = NoGame
    /\ lastMsg = Msg("JOIN", <<SpectateChannel(1)>>) /\ answer = "WRONG_PASSWORD"
    /\ pc["reader"] = "run" /\ q["reader"] = <<OpSend(Line("475", SpectateChannel(1)))>>

\* C23: a nickname that the session has stored is never replaced by another.
C23_NickNeverChanges ==
    [][nick # NoName => nick' = nick]_vars

\* C24: once the registered flag is true it stays true, the registration check
\* with its backend login and the step that sets the flag are not taken again,
\* and no handler enqueues the first line of the welcome again.
C24_RegisteredOnceAndForAll ==
    [][registered =>
          (/\ registered'
           /\ ~(/\ Running("reader") /\ HeadOp("reader").op \in {"regcheck", "setreg"}
                /\ q'["reader"] # q["reader"])
           /\ pc["reader"] = "scan" =>
                 \A i \in 1..Len(q'["reader"]) :
                     q'["reader"][i] \notin {OpSend(Line("001", NoName)), Op("regcheck"),
                                             Op("setreg")})]_vars

C24_Witness ==
    /\ registered /\ lastMsg = Msg("USER", <<NoName>>) /\ pyx /\ ~loginFailed
    /\ pc["reader"] = "run" /\ q["reader"] = <<OpSend(Line("462", NoName))>>

\* C25: the line that reaches the socket after the KILL notice of a kicked or
\* banned event is the closing ERROR line, and the close is requested only
\* after both.
C25_KillThenClosingLine ==
    /\ [][(wire # <<>> /\ wire[Len(wire)].t = "KILL" /\ wire' # wire) =>
             wire' = <<Line("KILL", NoName), Line("ERROR", NoName)>>]_vars
    /\ [][(Running("disp") /\ HeadOp("disp").op = "closereq" /\ q'["disp"] # q["disp"]
           /\ lastMsg.cmd # "QUIT") =>
             wire = <<Line("KILL", NoName), Line("ERROR", NoName)>>]_vars

\* C26: when the long poll has failed and closed the event channel (no logout
\* has asked for the close), the dispatcher's disconnect puts the closing line
\* on the open socket, and nothing is delivered to the dispatcher any more.
C26_PollErrorEndsWithClosingLine ==
    /\ [][(/\ Running("disp") /\ HeadOp("disp").op = "direct" /\ q'["disp"] # q["disp"]
           /\ evClosed /\ logouts = 0 /\ ~sockClosed) =>
             \E i \in 1..Len(wire') : wire'[i].t = "ERROR"]_vars
    /\ [][(evClosed /\ logouts = 0) =>
             ~(Running("poll") /\ HeadOp("poll").op = "deliver" /\ q'["poll"] # q["poll"])]_vars

\* C27: the lines of one handler are handed to the writer one after the other:
\* the event translator hands over no line while the command router is between
\* the first and the second line of the welcome.
C27_WelcomeIsNotInterleaved ==
    [][(/\ Running("disp") /\ HeadOp("disp").op = "send"
        /\ q'["disp"] = Tail(q["disp"]) /\ whold' = HeadOp("disp").l) =>
          ~(/\ pc["reader"] = "run" /\ q["reader"] # <<>>
            /\ HeadOp("reader") = OpSend(Line("002", NoName)))]_vars

\* C28: an event is handed to the event translator, and its handler run, only
\* when the registered flag is true.
C28_EventsOnlyWhenRegistered ==
    [][(Running("poll") /\ HeadOp("poll").op = "deliver" /\ ~evClosed
        /\ q'["poll"] # q["poll"]) => registered]_vars

\* C29: while an event handler has a read of the game id and the spectate flag
\* ahead of it (a message of the bridge to the game channel, the scoreboard),
\* no step changes the two fields.
C29_MembershipHeldForTheHandler ==
    [][(/\ pc["disp"] = "run"
        /\ \E i \in 1..Len(q["disp"]) : q["disp"][i].op \in {"botmsg", "scoreboard"}) =>
          (gameId' = gameId /\ gameIsSpectate' = gameIsSpectate)]_vars

\* C30: of a text in the envelope of makeEmote isEmote returns true and the
\* text that was wrapped; of any other text that is not empty it returns false
\* and the text as it is.
C30_EmoteRoundTrip ==
    (call.f = "isEmote" /\ call.done /\ call.in # <<>>) =>
       LET n == Len(call.in)
           x == SubSeq(call.in, 9, n - 1)
       IN IF n >= 9 /\ call.in = makeEmote(x)
          THEN call.out = [panics |-> FALSE, emote |-> TRUE, text |-> x]
          ELSE call.out = [panics |-> FALSE, emote |-> FALSE, text |-> call.in]

\* Task t executes the operation o at the head of its list in this step.
Steps(t, o) == Running(t) /\ HeadOp(t).op = o /\ q'[t] # q[t] /\ panic' = panic

C32_FirstPlayingAfterJoinIsQuiet ==
    [][(/\ Delivers("GAME_STATE_CHANGE") /\ HeadOp("poll").e.state = "PLAYING"
        /\ nEvents = 1) =>
          \A i \in 1..Len(q'["disp"]) : q'["disp"][i].op # "topicchange"]_vars

\* C33: the change to the lobby state leaves the handler with the topic
\* refresh, the reset notice and the clearing of the flag, in this order, and
\* the flag is false once the handler is through; the change to the playing
\* state leaves the flag true and enqueues a topic refresh exactly when the
\* flag was false; the flag turns false only at the end of a lobby change or
\* when a JOIN is read, so that of playing changes with neither between them
\* only the first refreshes the topic.
C33_FlagFollowsTheGame ==
    /\ [][(Delivers("GAME_STATE_CHANGE") /\ HeadOp("poll").e.state = "LOBBY") =>
             (/\ q'["disp"] = <<Op("topicchange"), BotMsg("lobby", <<>>), Op("clearprogress")>>
              /\ gameInProgress' = gameInProgress)]_vars
    /\ [][Steps("disp", "clearprogress") =>
             (~gameInProgress' /\ q'["disp"] = <<>> /\ pc'["disp"] = "recv")]_vars
    /\ [][(Delivers("GAME_STATE_CHANGE") /\ HeadOp("poll").e.state = "PLAYING") =>
             (/\ gameInProgress'
              /\ gameInProgress =>
                    \A i \in 1..Len(q'["disp"]) : q'["disp"][i].op # "topicchange"
              /\ ~gameInProgress =>
                    (/\ q'["disp"][1] = Op("topicchange")
                     /\ \A i \in 2..Len(q'["disp"]) : q'["disp"][i].op # "topicchange"))]_vars
    /\ [][(gameInProgress /\ ~gameInProgress') =>
             (Steps("disp", "clearprogress") \/ Reads("JOIN"))]_vars

\* The second of two playing changes in a row: the flag is set, and the handler
\* goes on with the black card without a topic refresh.
C33_Witness ==
    /\ gameId = 1 /\ gameInProgress /\ nEvents = 2 /\ pc["disp"] = "run"
    /\ q["disp"] = <<BotMsg("black", <<>>),
                     OpE("judge", [Ev("GAME_STATE_CHANGE") EXCEPT !.game = 1,
                                                                  !.state = "PLAYING"])>>

\* C34: an event whose kind is not in the table of handlers leaves the
\* dispatcher with one line, the message of the bridge to the session's
\* nickname; an event of the kinds list refresh and player info change leaves
\* it with nothing and back at the channel; a no-op is never handed to the
\* dispatcher.
C34_SilentOnlyByDesign ==
    /\ [](\A i \in 1..Len(q["poll"]) :
             q["poll"][i].op = "deliver" => q["poll"][i].e.ev # "NOOP")
    /\ [][\A kind \in {"CARDCAST_ADD", "GAME_LIST_REFRESH", "GAME_PLAYER_INFO_CHANGE", "NOOP"} :
             Delivers(kind) =>
                IF kind \notin EventHandlers
                THEN /\ kind # "NOOP"
                     /\ q'["disp"] = <<OpSend(Line("PRIVMSG", nick))>>
                     /\ pc'["disp"] = "run"
                ELSE /\ q'["disp"] = <<>> /\ pc'["disp"] = "recv"
                     /\ whold' = whold /\ wire' = wire /\ panic' = panic]_vars

C34_Witness ==
    /\ registered /\ nEvents = SessionEventCost /\ pc["disp"] = "run"
    /\ q["disp"] = <<OpSend(Line("PRIVMSG", nick))>>
    /\ pc["poll"] = "select"

\* C35: when the handler of a host's leave goes on to send the operator mode
\* of the new host, the recorded host is that host.
C35_RecordedHostIsCurrent ==
    [][\A h \in NewHosts :
          (/\ Steps("disp", "leave")
           /\ q'["disp"] = <<OpSend(LineX("MODE", getGameChannel, <<h>>)),
                             Op("topicchange")>>) => gameHost' = h]_vars

\* C36: a round-complete event is handled without a panic, whatever the session
\* holds: the dispatcher goes on with the announcement of the winner and then
\* the scoreboard.
C36_RoundCompleteNeverFaults ==
    [][Delivers("GAME_ROUND_COMPLETE") =>
          (/\ panic' = panic /\ pc'["disp"] = "run"
           /\ Len(q'["disp"]) = 2
           /\ q'["disp"][1].op = "botmsg" /\ q'["disp"][1].l.t = "won"
           /\ q'["disp"][2] = Op("scoreboard"))]_vars

\* C37: no task executes a send on client.data once the channel is closed.
C37_NoSendOnClosedData ==
    [][\A t \in OpTasks :
          ~(/\ Running(t) /\ HeadOp(t).op = "send" /\ dataClosed
            /\ panic' = [by |-> t, why |-> "closed"] /\ panic' # panic)]_vars

\* C38: Close is never stuck: no state has a task of the session waiting in
\* Close for the long-poll task while the long-poll task waits to hand an
\* event to a dispatcher that is itself the waiting task, or has returned.
C38_CloseIsNeverStuck ==
    ~\E t \in OpTasks :
        /\ Running(t) /\ HeadOp(t).op = "wait" /\ wg > 0
        /\ Running("poll") /\ HeadOp("poll").op = "deliver" /\ ~evClosed
        /\ t = "disp" \/ pc["disp"] \in {"dead", "done"}

\* C39: no step of Close panics: the stop channel is not sent on or closed
\* after it has been closed, and the event channel is not closed twice.
C39_CloseRunsOnce ==
    [][\A t \in OpTasks :
          (Running(t) /\ HeadOp(t).op \in {"closeset", "closeev"}) =>
             (panic' # panic => panic'.by # t)]_vars

\* C40: the outbound channel and the close channel of a session are closed
\* together, once, by the step that takes the session out of the registry, and
\* never reopened; an unregistration request that finds the session gone, the
\* second of the reader task and the close task, changes none of the three and
\* panics nobody.
C40_UnregisteredOnce ==
    /\ [][(dataClosed' # dataClosed \/ closeClosed' # closeClosed
             \/ inRegistry' # inRegistry) =>
            (/\ regBusy /\ ~regBusy'
             /\ inRegistry /\ ~dataClosed /\ ~closeClosed
             /\ ~inRegistry' /\ dataClosed' /\ closeClosed')]_vars
    /\ [][(regBusy /\ ~regBusy' /\ ~inRegistry) =>
            UNCHANGED <<dataClosed, closeClosed, inRegistry, panic>>]_vars
    /\ [][(regBusy /\ ~regBusy') => panic' = panic]_vars

\* The reader (read failure) and the close task (closed close channel) have
\* both asked for the unregistration and returned; the session left the
\* registry with both channels closed and nobody panicked.
C40_Witness ==
    /\ pc["reader"] = "done" /\ pc["closer"] = "done"
    /\ ~regBusy /\ ~inRegistry /\ dataClosed /\ closeClosed
    /\ panic = NoPanic

====
